---- MODULE Spec2Model ----
(***************************************************************************)
(* Model of src/app.py: the report history kept in history.json            *)
(* (save_report_to_history, load_history, delete_report), the prompt sent  *)
(* to the remote model (analyze_image_with_gemini) and the two audit pages *)
(* that call them.                                                         *)
(*                                                                         *)
(* Text is modelled as a sequence of fragments (TLA+ strings).  Two        *)
(* fragments are the characters JSON escapes inside a string, the double   *)
(* quote and the backslash; every other fragment stands for a run of       *)
(* ordinary characters.                                                    *)
(***************************************************************************)
EXTENDS Integers, Sequences, FiniteSets, TLC

VARIABLES
    file,        \* history.json: [kind, text]
    now,         \* the wall clock, in seconds
    appendLog,   \* ghost: the entries written by save_report_to_history, oldest first
    clean,       \* ghost: the storage was missing or an empty history at the start
    lastOp,      \* ghost: the latest operation, [op, id, rep]
    raised,      \* the latest operation ended with an exception reaching its caller
    returned,    \* what the latest load_history() of the History page returned
    form,        \* the widget values the latest audit handler read
    sent,        \* the prompts the latest handler sent to the remote model
    result,      \* the text the latest analyze_image_with_gemini returned
    notice,      \* the message the latest handler showed
    pc,          \* per session: the step of the store operation in progress
    snap,        \* per session: the local variable `history` of the operation
    req,         \* per session: the operation in progress and its argument
    lastWrite,   \* ghost: the latest completed rewrite of history.json
    opCount,     \* ghost: per session, the store operations it has started
    everDeleted  \* ghost: delete_report has been called

vars == <<file, now, appendLog, clean, lastOp, raised, returned, form, sent,
          result, notice, pc, snap, req, lastWrite, opCount, everDeleted>>

(***************************************************************************)
(* Bounds of the model.                                                    *)
(***************************************************************************)
MaxClock == 1
MaxSaves == 3
MaxAuditSaves == 1
MaxText == 2
MaxSessionOps == 1

SecondsPerMinute == 60

QUOTE == "\""
BACKSLASH == "\\"

Digits == <<"0", "1", "2", "3", "4", "5", "6", "7", "8", "9">>

TwoDigits(n) == <<Digits[((n \div 10) % 10) + 1], Digits[(n % 10) + 1]>>

\* strftime("%Y%m%d%H%M%S"): fixed width, down to the second.  The model's
\* clock starts at minute 0, second 0 of some hour; the constant leading
\* fields are left out.
strftime_id(t) == TwoDigits(t \div SecondsPerMinute) \o TwoDigits(t % SecondsPerMinute)

\* strftime("%Y-%m-%d %H:%M"): down to the minute.
strftime_date(t) == TwoDigits(t \div SecondsPerMinute)

Keys == <<"id", "date", "type", "summary", "full_report">>

(***************************************************************************)
(* json.dump: the token sequence written for a history.  White space       *)
(* (indent=4) carries no information and is left out.                      *)
(***************************************************************************)
\* A json.dump that writes string contents as they are.
EscapeNone(s) == s

RECURSIVE json_escape(_)
json_escape(s) ==
    IF s = <<>> THEN <<>>
    ELSE (IF Head(s) \in {QUOTE, BACKSLASH} THEN <<BACKSLASH, Head(s)>> ELSE <<Head(s)>>)
         \o json_escape(Tail(s))

dump_str(s) == <<QUOTE>> \o json_escape(s) \o <<QUOTE>>

RECURSIVE dump_members(_, _)
dump_members(e, k) ==
    IF k > Len(Keys) THEN <<>>
    ELSE (IF k > 1 THEN <<",">> ELSE <<>>)
         \o dump_str(<<Keys[k]>>) \o <<":">> \o dump_str(e[Keys[k]])
         \o dump_members(e, k + 1)

dump_entry(e) == <<"{">> \o dump_members(e, 1) \o <<"}">>

RECURSIVE dump_items(_, _)
dump_items(h, k) ==
    IF k > Len(h) THEN <<>>
    ELSE (IF k > 1 THEN <<",">> ELSE <<>>) \o dump_entry(h[k]) \o dump_items(h, k + 1)

json_dump(h) == <<"[">> \o dump_items(h, 1) \o <<"]">>

(***************************************************************************)
(* json.load: a recursive-descent parse of the token sequence.  A parse    *)
(* step yields [ok, val, next]; ok = FALSE is json.JSONDecodeError.  The   *)
(* texts considered are those the program wrote and damaged copies of      *)
(* them, so an object is read as the five members of a report entry.       *)
(***************************************************************************)
ParseFail == [ok |-> FALSE, val |-> <<>>, next |-> 0]

RECURSIVE scan_str(_, _, _)
scan_str(text, i, acc) ==
    IF i > Len(text) THEN ParseFail
    ELSE IF text[i] = QUOTE THEN [ok |-> TRUE, val |-> acc, next |-> i + 1]
    ELSE IF text[i] = BACKSLASH
         THEN IF i + 1 <= Len(text) /\ text[i + 1] \in {QUOTE, BACKSLASH}
              THEN scan_str(text, i + 2, Append(acc, text[i + 1]))
              ELSE ParseFail
    ELSE scan_str(text, i + 1, Append(acc, text[i]))

parse_str(text, i) ==
    IF i <= Len(text) /\ text[i] = QUOTE THEN scan_str(text, i + 1, <<>>) ELSE ParseFail

Expect(text, i, tok) == i <= Len(text) /\ text[i] = tok

RECURSIVE parse_members(_, _, _, _)
parse_members(text, i, k, acc) ==
    IF k > Len(Keys)
    THEN IF Expect(text, i, "}")
         THEN [ok |-> TRUE,
               val |-> [key \in {Keys[j] : j \in 1..Len(Keys)} |->
                           acc[CHOOSE j \in 1..Len(Keys) : Keys[j] = key]],
               next |-> i + 1]
         ELSE ParseFail
    ELSE LET j == IF k > 1 THEN i + 1 ELSE i
             key == parse_str(text, j)
         IN  IF k > 1 /\ ~Expect(text, i, ",") THEN ParseFail
             ELSE IF ~key.ok \/ key.val # <<Keys[k]>> THEN ParseFail
             ELSE IF ~Expect(text, key.next, ":") THEN ParseFail
             ELSE LET v == parse_str(text, key.next + 1)
                  IN  IF ~v.ok THEN ParseFail
                      ELSE parse_members(text, v.next, k + 1, Append(acc, v.val))

parse_entry(text, i) ==
    IF Expect(text, i, "{") THEN parse_members(text, i + 1, 1, <<>>) ELSE ParseFail

RECURSIVE parse_items(_, _, _)
parse_items(text, i, acc) ==
    LET e == parse_entry(text, i)
    IN  IF ~e.ok THEN ParseFail
        ELSE IF Expect(text, e.next, ",") THEN parse_items(text, e.next + 1, Append(acc, e.val))
        ELSE IF Expect(text, e.next, "]")
             THEN [ok |-> TRUE, val |-> Append(acc, e.val), next |-> e.next + 1]
        ELSE ParseFail

json_load(text) ==
    LET r == IF ~Expect(text, 1, "[") THEN ParseFail
             ELSE IF Expect(text, 2, "]") THEN [ok |-> TRUE, val |-> <<>>, next |-> 3]
             ELSE parse_items(text, 2, <<>>)
    IN  IF r.ok /\ r.next = Len(text) + 1 THEN [ok |-> TRUE, val |-> r.val]
        ELSE [ok |-> FALSE, val |-> <<>>]

(***************************************************************************)
(* The storage.  history.json is missing, a regular file holding text, or  *)
(* present but not readable (open(..., "r") raises).  Writing a regular    *)
(* or missing file is taken to succeed; opening an unreadable one for      *)
(* writing may succeed (its text stays out of reach) or raise.             *)
(***************************************************************************)
Missing == [kind |-> "missing", text |-> <<>>]
Unreadable == [kind |-> "unreadable", text |-> <<>>]
Regular(text) == [kind |-> "regular", text |-> text]

\* The body of the try block: open the file and json.load it.
read_json(f) ==
    IF f.kind = "regular" THEN json_load(f.text) ELSE [ok |-> FALSE, val |-> <<>>]

\* A load_history without its except clause.
load_history_no_except(f) ==
    IF f.kind = "missing" THEN [raised |-> FALSE, val |-> <<>>]
    ELSE LET r == read_json(f)
         IN  IF r.ok THEN [raised |-> FALSE, val |-> r.val]
             ELSE [raised |-> TRUE, val |-> <<>>]

load_history(f) ==
    IF f.kind = "missing" THEN [raised |-> FALSE, val |-> <<>>]
    ELSE LET r == read_json(f)
         IN  IF r.ok THEN [raised |-> FALSE, val |-> r.val]
             ELSE [raised |-> FALSE, val |-> <<>>]

\* A save_report_to_history whose read lets the parse error through.
save_read_no_except(f) ==
    IF f.kind = "missing" THEN [raised |-> FALSE, val |-> <<>>]
    ELSE LET r == read_json(f)
         IN  IF r.ok THEN [raised |-> FALSE, val |-> r.val]
             ELSE [raised |-> TRUE, val |-> <<>>]

\* Lines 84-91: the read at the head of save_report_to_history.
save_read(f) ==
    IF f.kind = "missing" THEN [raised |-> FALSE, val |-> <<>>]
    ELSE LET r == read_json(f)
         IN  IF r.ok THEN [raised |-> FALSE, val |-> r.val]
             ELSE [raised |-> FALSE, val |-> <<>>]

Get(d, k, default) == IF k \in DOMAIN d THEN d[k] ELSE default

report_entry(report_data, t1, t2) ==
    [id |-> strftime_id(t1),
     date |-> strftime_date(t2),
     type |-> Get(report_data, "type", <<"Unknown">>),
     summary |-> Get(report_data, "summary", <<"No summary">>),
     full_report |-> Get(report_data, "full_report", <<>>)]

\* history.append(report_entry) in place of history.insert(0, report_entry).
insert_bottom(history, entry) == Append(history, entry)

insert_top(history, entry) == <<entry>> \o history

RECURSIVE drop_first(_, _)
\* A filter that drops only the first entry carrying the id.
drop_first(history, report_id) ==
    IF history = <<>> THEN <<>>
    ELSE IF Head(history).id = report_id THEN Tail(history)
    ELSE <<Head(history)>> \o drop_first(Tail(history), report_id)

delete_filter(history, report_id) ==
    SelectSeq(history, LAMBDA item : item.id # report_id)

WriteOutcomes(f) == IF f.kind = "unreadable" THEN {TRUE, FALSE} ELSE {TRUE}

write_file(f, history) ==
    IF f.kind = "unreadable" THEN f ELSE Regular(json_dump(history))

StorageState(f) ==
    IF f.kind # "regular" THEN f.kind
    ELSE IF json_load(f.text).ok THEN "ok" ELSE "corrupt"

(***************************************************************************)
(* analyze_image_with_gemini and the prompt it builds.                     *)
(***************************************************************************)
ApplianceMarker == "ADDITIONAL DATA PROVIDED BY USER (Appliances):"

PromptHead ==
    <<"You are an expert Energy Auditor in Morocco.",
      "Your goal is to analyze energy bills and consumption based on Moroccan Norms (AMEE, ONEE).",
      "Currency is Moroccan Dirham (MAD). Voltage is 220V/380V.",
      "TASK:">>

PromptTail ==
    <<"Please provide the response in structured Markdown format with clear headings.",
      "Include specific recommendations for energy efficiency in Morocco.">>

SimplePrompt ==
    <<"1. Extract the total consumption (kWh).",
      "2. Extract the total amount (MAD).",
      "3. Identify the billing period.",
      "4. Analyze if the consumption is high for a standard household in Morocco.",
      "5. Provide 3 specific recommendations to reduce this bill.">>

DetailedPrompt ==
    <<"1. Extract total consumption (kWh) and cost (MAD) from the uploaded bill.",
      "2. Analyze the provided appliance list.",
      "3. Estimate the theoretical consumption of these appliances.",
      "4. Compare the theoretical consumption with the actual bill consumption.",
      "5. Identify discrepancies (e.g., hidden consumption, old appliances, insulation issues).",
      "6. Provide a detailed action plan to optimize energy use according to Moroccan standards.">>

\* A prompt whose appliance section holds the heading alone.
full_prompt_heading_only(prompt, is_detailed, appliances_info) ==
    PromptHead \o prompt
    \o (IF is_detailed THEN <<ApplianceMarker>> ELSE <<>>)
    \o PromptTail

full_prompt(prompt, is_detailed, appliances_info) ==
    PromptHead \o prompt
    \o (IF is_detailed THEN <<ApplianceMarker>> \o appliances_info ELSE <<>>)
    \o PromptTail

ErrNoKey == <<"Error: API Key not provided.">>
ErrAnalysis == "Error during analysis: "

\* What model.generate_content does: it returns a response whose text may be
\* empty, or it raises.
RemoteOutcomes ==
    {[raises |-> FALSE, text |-> <<"R", QUOTE>>],
     [raises |-> FALSE, text |-> <<>>],
     [raises |-> TRUE, text |-> <<"timeout">>]}

\* Without an API key the remote model is never reached.
NotCalled == [raises |-> FALSE, text |-> <<>>]
OutcomesWith(api_key) == IF api_key THEN RemoteOutcomes ELSE {NotCalled}

\* [text, sent]: the string returned and the prompts handed to the remote model.
analyze_image_with_gemini(api_key, prompt, is_detailed, appliances_info, outcome) ==
    IF ~api_key THEN [text |-> ErrNoKey, sent |-> <<>>]
    ELSE LET p == full_prompt(prompt, is_detailed, appliances_info)
         IN  IF outcome.raises
             THEN [text |-> <<ErrAnalysis>> \o outcome.text, sent |-> <<p>>]
             ELSE [text |-> outcome.text, sent |-> <<p>>]

\* The texts a user may type into the appliance list.
ApplianceWords == {"AC", "TV"}
RECURSIVE TextsUpTo(_)
TextsUpTo(n) ==
    IF n = 0 THEN {<<>>}
    ELSE LET shorter == TextsUpTo(n - 1)
         IN  shorter \cup {Append(t, w) : t \in shorter, w \in ApplianceWords}

Texts == TextsUpTo(MaxText)

Min(a, b) == IF a < b THEN a ELSE b

Ids == {strftime_id(t) : t \in 0..MaxClock}

NoForm == [uploaded |-> FALSE, appliance_info |-> <<>>]
NoEntry == [id |-> <<>>, date |-> <<>>, type |-> <<>>, summary |-> <<>>, full_report |-> <<>>]
NoReq == [op |-> "none", id |-> <<>>, entry |-> NoEntry]
NoWrite == [by |-> 0, req |-> NoReq, snap |-> <<>>]
Sessions == {1, 2}

Op(op, id, rep) == [op |-> op, id |-> id, rep |-> rep]

SessionVars == <<pc, snap, req, lastWrite, opCount, everDeleted>>
PageVars == <<lastOp, raised, returned, form, sent, result, notice>>

(***************************************************************************)
(* The state after start-up.  history.json is whatever the working         *)
(* directory holds: nothing, an empty history, an empty or cut-off file,   *)
(* or a file that cannot be opened.                                        *)
(***************************************************************************)
InitialStorage ==
    {Missing, Regular(json_dump(<<>>)), Regular(<<>>), Regular(<<"[">>), Unreadable}

Init ==
    /\ file \in InitialStorage
    /\ now = 0
    /\ appendLog = <<>>
    /\ clean = (file \in {Missing, Regular(json_dump(<<>>))})
    /\ lastOp = Op("none", <<>>, FALSE)
    /\ raised = FALSE
    /\ returned = <<>>
    /\ form = NoForm
    /\ sent = <<>>
    /\ result = <<>>
    /\ notice = ""
    /\ pc = [s \in Sessions |-> "idle"]
    /\ snap = [s \in Sessions |-> <<>>]
    /\ req = [s \in Sessions |-> NoReq]
    /\ lastWrite = NoWrite
    /\ opCount = [s \in Sessions |-> 0]
    /\ everDeleted = FALSE

\* Time passes.
Tick ==
    /\ now < MaxClock
    /\ now' = now + 1
    /\ UNCHANGED <<file, appendLog, clean, PageVars, SessionVars>>

\* save_report_to_history(report_data), run by a single writer.  The clock is
\* read twice (lines 95 and 96) and may advance in between.
save_report_to_history(report_data) ==
    \E t2 \in now..Min(now + 1, MaxClock), wrote \in WriteOutcomes(file) :
        LET history == save_read(file)
            entry == report_entry(report_data, now, t2)
        IN  /\ now' = t2
            /\ IF ~history.raised /\ wrote
               THEN /\ file' = write_file(file, insert_top(history.val, entry))
                    /\ appendLog' = Append(appendLog, entry)
                    /\ raised' = FALSE
               ELSE /\ file' = file
                    /\ appendLog' = appendLog
                    /\ raised' = TRUE

\* The Simple Audit page with a bill uploaded: the "Analyze Bill" button.
SimpleAudit ==
    \E api_key \in BOOLEAN : \E outcome \in OutcomesWith(api_key) :
        LET r == analyze_image_with_gemini(api_key, SimplePrompt, FALSE, <<>>, outcome)
        IN  /\ lastOp' = Op("simple", <<>>, FALSE)
            /\ form' = [uploaded |-> TRUE, appliance_info |-> <<>>]
            /\ sent' = r.sent
            /\ result' = r.text
            /\ returned' = <<>>
            /\ IF r.text # <<>>
               THEN /\ Len(appendLog) < MaxAuditSaves
                    /\ save_report_to_history([type |-> <<"Simple Audit">>,
                                               summary |-> <<"Simple Bill Analysis">>,
                                               full_report |-> r.text])
                    /\ notice' = IF raised' THEN "exception" ELSE "Report saved to History!"
               ELSE /\ notice' = ""
                    /\ raised' = FALSE
                    /\ UNCHANGED <<file, now, appendLog>>
            /\ UNCHANGED <<clean, SessionVars>>

\* A check that looks at the uploaded bill alone.
inputs_given_bill_only(uploaded, appliance_info) == uploaded

\* Line 255: `uploaded_file is not None and appliance_info`.
inputs_given(uploaded, appliance_info) == uploaded /\ appliance_info # <<>>

\* The Detailed Audit page: the "Generate Detailed Report" button.
DetailedAudit ==
    \E uploaded \in BOOLEAN, appliance_info \in Texts :
        /\ lastOp' = Op("detailed", <<>>, FALSE)
        /\ form' = [uploaded |-> uploaded, appliance_info |-> appliance_info]
        /\ returned' = <<>>
        /\ IF inputs_given(uploaded, appliance_info)
           THEN \E api_key \in BOOLEAN : \E outcome \in OutcomesWith(api_key) :
                  LET r == analyze_image_with_gemini(api_key, DetailedPrompt, TRUE,
                                                     appliance_info, outcome)
                  IN  /\ sent' = r.sent
                      /\ result' = r.text
                      /\ IF r.text # <<>>
                         THEN /\ Len(appendLog) < MaxAuditSaves
                              /\ save_report_to_history(
                                     [type |-> <<"Detailed Audit">>,
                                      summary |-> <<"Detailed Analysis with Appliances">>,
                                      full_report |-> r.text])
                              /\ notice' = IF raised' THEN "exception"
                                           ELSE "Detailed Report saved to History!"
                         ELSE /\ notice' = ""
                              /\ raised' = FALSE
                              /\ UNCHANGED <<file, now, appendLog>>
           ELSE /\ sent' = <<>>
                /\ result' = <<>>
                /\ raised' = FALSE
                /\ notice' = IF ~uploaded THEN "Please upload a bill image."
                             ELSE "Please enter appliance information."
                /\ UNCHANGED <<file, now, appendLog>>
        /\ UNCHANGED <<clean, SessionVars>>

\* The reports the two pages hand to save_report_to_history.
Reports ==
    {[type |-> <<"Simple Audit">>, summary |-> <<"Simple Bill Analysis">>,
      full_report |-> <<"R", QUOTE>>],
     [type |-> <<"Detailed Audit">>, summary |-> <<"Detailed Analysis with Appliances">>,
      full_report |-> <<BACKSLASH, "D">>]}

\* A call of save_report_to_history(report_data).
SaveReport(report_data) ==
    /\ Len(appendLog) < MaxSaves
    /\ save_report_to_history(report_data)
    /\ lastOp' = Op("save", <<>>, FALSE)
    /\ result' = report_data.full_report
    /\ returned' = <<>>
    /\ form' = NoForm
    /\ sent' = <<>>
    /\ notice' = ""
    /\ UNCHANGED <<clean, SessionVars>>

\* The History page: it renders what load_history() returns.
ViewHistory ==
    LET h == load_history(file)
    IN  /\ lastOp' = Op("view", <<>>, FALSE)
        /\ raised' = h.raised
        /\ returned' = h.val
        /\ form' = NoForm
        /\ sent' = <<>>
        /\ result' = <<>>
        /\ notice' = ""
        /\ UNCHANGED <<file, now, appendLog, clean, SessionVars>>

\* delete_report(report_id), run by a single writer, and the rerun of the
\* History page that follows it.
DeleteReport(report_id) ==
    \E wrote \in WriteOutcomes(file) :
        LET history == load_history(file)
        IN  /\ lastOp' = Op("delete", report_id,
                            lastOp.op = "delete" /\ lastOp.id = report_id)
            /\ IF ~history.raised /\ wrote
               THEN /\ file' = write_file(file, delete_filter(history.val, report_id))
                    /\ LET shown == load_history(file')
                       IN  raised' = shown.raised /\ returned' = shown.val
               ELSE /\ file' = file
                    /\ raised' = TRUE
                    /\ returned' = <<>>
            /\ form' = NoForm
            /\ sent' = <<>>
            /\ result' = <<>>
            /\ notice' = ""
            /\ everDeleted' = TRUE
            /\ UNCHANGED <<now, appendLog, clean, pc, snap, req, lastWrite, opCount>>

\* The audit pages and the history view, as one user drives them.
Next ==
    \/ Tick
    \/ SimpleAudit
    \/ DetailedAudit
    \/ ViewHistory

Spec == Init /\ [][Next]_vars

\* The three history functions, called by a single writer.
StoreNext ==
    \/ Tick
    \/ \E report_data \in Reports : SaveReport(report_data)
    \/ ViewHistory
    \/ \E report_id \in Ids : DeleteReport(report_id)

StoreSpec == Init /\ [][StoreNext]_vars

(***************************************************************************)
(* Two sessions of the application on the same history.json.  Each store   *)
(* function reads the whole history, changes its copy and writes it back;  *)
(* another session may run between the read and the write.                 *)
(***************************************************************************)
\* A write-back that reads the file again at the time of the write.
written_history_reread(s) ==
    IF req[s].op = "save" THEN insert_top(load_history(file).val, req[s].entry)
    ELSE delete_filter(load_history(file).val, req[s].id)

\* Lines 102-105 and 122-125: what the session writes is computed from the
\* copy it read.
written_history(s) ==
    IF req[s].op = "save" THEN insert_top(snap[s], req[s].entry)
    ELSE delete_filter(snap[s], req[s].id)

\* save_report_to_history, lines 84-100: the read and the new entry.
BeginSave(s, report_data) ==
    /\ pc[s] = "idle"
    /\ opCount[s] < MaxSessionOps
    /\ \E t2 \in now..Min(now + 1, MaxClock) :
          /\ now' = t2
          /\ req' = [req EXCEPT ![s] = [op |-> "save", id |-> <<>>,
                                        entry |-> report_entry(report_data, now, t2)]]
    /\ snap' = [snap EXCEPT ![s] = save_read(file).val]
    /\ pc' = [pc EXCEPT ![s] = "write"]
    /\ opCount' = [opCount EXCEPT ![s] = @ + 1]
    /\ UNCHANGED <<file, appendLog, clean, PageVars, lastWrite, everDeleted>>

\* delete_report, line 121: the read.
BeginDelete(s, report_id) ==
    /\ pc[s] = "idle"
    /\ opCount[s] < MaxSessionOps
    /\ req' = [req EXCEPT ![s] = [op |-> "delete", id |-> report_id, entry |-> NoEntry]]
    /\ snap' = [snap EXCEPT ![s] = load_history(file).val]
    /\ pc' = [pc EXCEPT ![s] = "write"]
    /\ opCount' = [opCount EXCEPT ![s] = @ + 1]
    /\ everDeleted' = TRUE
    /\ UNCHANGED <<file, now, appendLog, clean, PageVars, lastWrite>>

\* Lines 104-105 and 124-125: the rewrite of history.json.
EndWrite(s) ==
    /\ pc[s] = "write"
    /\ \E wrote \in WriteOutcomes(file) :
          IF wrote
          THEN /\ file' = write_file(file, written_history(s))
               /\ appendLog' = IF req[s].op = "save" THEN Append(appendLog, req[s].entry)
                               ELSE appendLog
               /\ lastWrite' = [by |-> s, req |-> req[s], snap |-> snap[s]]
          ELSE UNCHANGED <<file, appendLog, lastWrite>>
    /\ pc' = [pc EXCEPT ![s] = "idle"]
    /\ UNCHANGED <<now, clean, PageVars, snap, req, opCount, everDeleted>>

SessionNext ==
    \/ Tick
    \/ \E s \in Sessions, report_data \in Reports : BeginSave(s, report_data)
    \/ \E s \in Sessions, report_id \in Ids : BeginDelete(s, report_id)
    \/ \E s \in Sessions : EndWrite(s)

SessionSpec == Init /\ [][SessionNext]_vars

(***************************************************************************)
(* Helpers of the properties below.                                        *)
(***************************************************************************)
History == load_history(file).val

RemoveAt(h, k) == SubSeq(h, 1, k - 1) \o SubSeq(h, k + 1, Len(h))

Reverse(h) == [k \in 1..Len(h) |-> h[Len(h) + 1 - k]]

RECURSIVE IsSubseq(_, _)
\* a can be obtained from b by leaving entries out.
IsSubseq(a, b) ==
    IF a = <<>> THEN TRUE
    ELSE IF b = <<>> THEN FALSE
    ELSE IF Head(a) = Head(b) THEN IsSubseq(Tail(a), Tail(b))
    ELSE IsSubseq(a, Tail(b))

\* x occurs in p as a contiguous run of fragments.
IsSubstring(x, p) ==
    \E i \in 0..(Len(p) - Len(x)) : SubSeq(p, i + 1, i + Len(x)) = x

Fragments(p) == {p[k] : k \in 1..Len(p)}

\* The two error results of analyze_image_with_gemini.
IsErrorResult(r) == r # <<>> /\ (r = ErrNoKey \/ Head(r) = ErrAnalysis)

SameReport(entry, report_data) ==
    /\ entry.type = report_data.type
    /\ entry.summary = report_data.summary
    /\ entry.full_report = report_data.full_report

(***************************************************************************)
(* C1.  delete_report(id) removes exactly one entry when the id is in the  *)
(* history, leaving the others as they were and in their order, and leaves *)
(* the history as it was when the id is absent.  Two saves within the same *)
(* second give two entries the same id, and one delete_report removes      *)
(* both: the property is violated.                                         *)
(***************************************************************************)
C1_DeleteRemovesExactlyOne ==
    [][\A report_id \in Ids :
          DeleteReport(report_id) =>
              LET before == load_history(file).val
                  after == load_history(file').val
              IN  IF \E k \in 1..Len(before) : before[k].id = report_id
                  THEN \E k \in 1..Len(before) :
                          before[k].id = report_id /\ after = RemoveAt(before, k)
                  ELSE after = before]_vars

(***************************************************************************)
(* C2.  An audit whose analysis ended in an error result (no API key, or   *)
(* an exception of the remote call) leaves the history as it was.  Both    *)
(* pages save every non-empty result, the error texts included: the        *)
(* property is violated.                                                   *)
(***************************************************************************)
C2_NoSaveOnError ==
    [][(SimpleAudit \/ DetailedAudit) /\ IsErrorResult(result') =>
          load_history(file').val = load_history(file).val]_vars

(***************************************************************************)
(* C3.  On readable storage, save_report_to_history(report) followed by    *)
(* load_history() gives the new entry first, with the report's type,       *)
(* summary and full_report, and then the previous history in its order.    *)
(***************************************************************************)
C3_SaveThenLoad ==
    [][\A report_data \in Reports :
          StorageState(file) = "ok" /\ SaveReport(report_data) =>
              LET before == load_history(file).val
                  after == load_history(file').val
              IN  /\ Len(after) = Len(before) + 1
                  /\ SameReport(after[1], report_data)
                  /\ Tail(after) = before]_vars

C3_Witness ==
    /\ lastOp.op = "save"
    /\ ~raised
    /\ Len(History) >= 2
    /\ History[1].full_report = result

(***************************************************************************)
(* C4.  From empty or missing storage, after any saves and deletes by a    *)
(* single writer, load_history() returns surviving entries in the reverse  *)
(* of the order in which they were appended.                               *)
(***************************************************************************)
C4_NewestFirst == clean => IsSubseq(History, Reverse(appendLog))

C4_Witness ==
    /\ clean
    /\ everDeleted
    /\ Len(appendLog) >= 3
    /\ Len(History) = 2
    /\ History[1] # History[2]

(***************************************************************************)
(* C5.  load_history() does not raise, returns the empty sequence when     *)
(* history.json is missing, unreadable or unparsable, and leaves the       *)
(* storage as it was.                                                      *)
(***************************************************************************)
C5_LoadNeverFails ==
    [][ViewHistory =>
          /\ ~raised'
          /\ file' = file
          /\ (StorageState(file) # "ok" => returned' = <<>>)]_vars

C5_Witness ==
    /\ lastOp.op = "view"
    /\ StorageState(file) = "corrupt"
    /\ returned = <<>>
    /\ ~raised

(***************************************************************************)
(* C6.  delete_report(id) called a second time in a row leaves the storage *)
(* as the first call left it.                                              *)
(***************************************************************************)
C6_DeleteIdempotent ==
    [][\A report_id \in Ids :
          (lastOp.op = "delete" /\ lastOp.id = report_id /\ DeleteReport(report_id))
              => file' = file]_vars

C6_Witness ==
    /\ lastOp.op = "delete"
    /\ lastOp.rep
    /\ \E k \in 1..Len(appendLog) : appendLog[k].id = lastOp.id
    /\ History # <<>>

(***************************************************************************)
(* C7.  On the Detailed Audit page, with the bill missing or the appliance *)
(* text empty, the button shows a validation error, sends nothing to the   *)
(* remote model and leaves the history as it was.                          *)
(***************************************************************************)
C7_ValidationBlocks ==
    [][(DetailedAudit /\ (~form'.uploaded \/ form'.appliance_info = <<>>)) =>
          /\ notice' \in {"Please upload a bill image.",
                          "Please enter appliance information."}
          /\ sent' = <<>>
          /\ file' = file]_vars

C7_Witness ==
    /\ lastOp.op = "detailed"
    /\ form.uploaded
    /\ form.appliance_info = <<>>
    /\ notice = "Please enter appliance information."
    /\ History # <<>>

(***************************************************************************)
(* C8.  Every prompt a detailed audit sends holds the appliance text as a  *)
(* contiguous run; no prompt of a simple audit holds the appliance         *)
(* heading.                                                                *)
(***************************************************************************)
C8_PromptEmbedsAppliances ==
    \A k \in 1..Len(sent) :
        /\ lastOp.op = "detailed" => IsSubstring(form.appliance_info, sent[k])
        /\ lastOp.op = "simple" => ApplianceMarker \notin Fragments(sent[k])

C8_Witness ==
    /\ lastOp.op = "detailed"
    /\ Len(sent) = 1
    /\ Len(form.appliance_info) >= 2
    /\ ApplianceMarker \in Fragments(sent[1])

(***************************************************************************)
(* C9.  With two sessions the last writer wins: the stored history is the  *)
(* last writer's change applied to the history that writer had read,       *)
(* whatever the other session wrote in between.  A state is reached where  *)
(* two saves have completed, nothing was deleted, and one entry is stored. *)
(***************************************************************************)
C9_LastWriterWins ==
    (lastWrite.by # 0 /\ file.kind = "regular") =>
        History = IF lastWrite.req.op = "save"
                  THEN <<lastWrite.req.entry>> \o lastWrite.snap
                  ELSE SelectSeq(lastWrite.snap, LAMBDA e : e.id # lastWrite.req.id)

C9_LostUpdate ==
    /\ clean
    /\ \A s \in Sessions : pc[s] = "idle"
    /\ ~everDeleted
    /\ Len(appendLog) = 2
    /\ Len(History) = 1

(***************************************************************************)
(* C10.  On a history.json that exists but does not parse,                 *)
(* save_report_to_history(report) raises nothing and leaves a history of   *)
(* exactly the new report; delete_report(id) leaves an empty history.      *)
(***************************************************************************)
C10_CorruptOverwritten ==
    [][StorageState(file) = "corrupt" =>
          /\ \A report_data \in Reports :
                SaveReport(report_data) =>
                    /\ ~raised'
                    /\ StorageState(file') = "ok"
                    /\ Len(load_history(file').val) = 1
                    /\ SameReport(load_history(file').val[1], report_data)
          /\ \A report_id \in Ids :
                DeleteReport(report_id) =>
                    /\ ~raised'
                    /\ file' = Regular(json_dump(<<>>))]_vars

C10_Witness ==
    /\ ~clean
    /\ file.kind = "regular"
    /\ ~everDeleted
    /\ lastOp.op = "save"
    /\ ~raised
    /\ Len(appendLog) = 1
    /\ Len(History) = 1

====
